---- MODULE Spec2Model ----
(***************************************************************************)
(* MusicLibrary: the request handlers of controllers/song_controller.go    *)
(* (GetAllSongs, GetSongVerses, CreateSong, UpdateSong, DeleteSong) over   *)
(* the songs table reached through database.DB (GORM on PostgreSQL) and    *)
(* the enrichment client utils.FetchSongDetails.                            *)
(*                                                                         *)
(* Strings whose characters matter (group, song, release_date, text and    *)
(* the page/limit query parameters) are sequences of one-character         *)
(* strings; the empty Go string is << >>.  The link is an opaque string.   *)
(***************************************************************************)
EXTENDS Integers, Sequences, FiniteSets, TLC

VARIABLES
    store,   \* the songs table: a function from the ids of the rows to models.Song
    nextId,  \* the next value of the primary key sequence of the songs table
    now,     \* the wall clock read by time.Now()
    resp,    \* the response written by the handler that ran last (c.JSON)
    procs    \* the requests in flight, one per serving goroutine

vars == <<store, nextId, now, resp, procs>>

----------------------------------------------------------------------------
(* Bounds of the model. *)

MaxSongs == 2      \* rows ever inserted (ids 1..MaxSongs)
MaxTextLen == 4    \* characters of a lyric text in the verse specification
MaxPage == 4       \* the largest page and limit requested in the verse specification
NumProcs == 2      \* requests served at the same time
IntBits == 8       \* bits of the model's int (64 in the build); it wraps the same way

----------------------------------------------------------------------------
(* Small helpers on sequences. *)

Min(a, b) == IF a < b THEN a ELSE b

\* All sequences over S of length at most n.
RECURSIVE SeqsUpTo(_, _)
SeqsUpTo(S, n) ==
    IF n = 0 THEN { << >> }
    ELSE LET shorter == SeqsUpTo(S, n - 1)
         IN  shorter \cup { Append(s, c) : s \in shorter, c \in S }

\* s[from..] in Go slice terms (0-based from), as a sequence.
Drop(s, k) == SubSeq(s, k + 1, Len(s))

DigitChars == {"0", "1", "2", "3", "4", "5", "6", "7", "8", "9"}

DigitVal(c) ==
    CASE c = "0" -> 0 [] c = "1" -> 1 [] c = "2" -> 2 [] c = "3" -> 3
      [] c = "4" -> 4 [] c = "5" -> 5 [] c = "6" -> 6 [] c = "7" -> 7
      [] c = "8" -> 8 [] c = "9" -> 9

\* isDigit(s, i) of package time, i 0-based.
IsDigitAt(s, i) == i < Len(s) /\ s[i + 1] \in DigitChars

\* The decimal value of a sequence of digit characters.
RECURSIVE DecimalValue(_)
DecimalValue(s) ==
    IF s = << >> THEN 0
    ELSE 10 * DecimalValue(SubSeq(s, 1, Len(s) - 1)) + DigitVal(s[Len(s)])

AllDigits(s) == \A i \in 1..Len(s) : s[i] \in DigitChars

----------------------------------------------------------------------------
(* models.Song and the zero value of the struct. *)

NoSong ==
    [id |-> 0, group |-> << >>, song |-> << >>, release_date |-> << >>,
     text |-> << >>, link |-> ""]

MkSong(id, group, song, releaseDate, text, link) ==
    [id |-> id, group |-> group, song |-> song, release_date |-> releaseDate,
     text |-> text, link |-> link]

----------------------------------------------------------------------------
(* Go's int: two's complement, arithmetic wrapping around silently.        *)

MaxInt == 2 ^ (IntBits - 1) - 1
MinInt == 0 - 2 ^ (IntBits - 1)

\* The int holding the mathematical result n.
WrapInt(n) == ((n - MinInt) % (2 ^ IntBits)) + MinInt

----------------------------------------------------------------------------
(* strconv.Atoi on a query parameter: an optional sign, then decimal       *)
(* digits; anything else is a syntax error, a value outside int a range    *)
(* error.                                                                  *)

\* Atoi reading 1 where the text is no number.
AtoiDefaulting(s) ==
    LET signed == Len(s) > 0 /\ s[1] \in {"+", "-"}
        digits == IF signed THEN Drop(s, 1) ELSE s
        val    == IF signed /\ s[1] = "-" THEN 0 - DecimalValue(digits)
                  ELSE DecimalValue(digits)
    IN  IF digits = << >> \/ ~AllDigits(digits)
        THEN [err |-> FALSE, val |-> 1]
        ELSE IF val > MaxInt \/ val < MinInt
        THEN [err |-> TRUE, val |-> IF val > MaxInt THEN MaxInt ELSE MinInt]
        ELSE [err |-> FALSE, val |-> val]

Atoi(s) ==
    LET signed == Len(s) > 0 /\ s[1] \in {"+", "-"}
        digits == IF signed THEN Drop(s, 1) ELSE s
        val    == IF signed /\ s[1] = "-" THEN 0 - DecimalValue(digits)
                  ELSE DecimalValue(digits)
    IN  IF digits = << >> \/ ~AllDigits(digits)
        THEN [err |-> TRUE, val |-> 0]
        ELSE IF val > MaxInt \/ val < MinInt
        THEN [err |-> TRUE, val |-> IF val > MaxInt THEN MaxInt ELSE MinInt]
        ELSE [err |-> FALSE, val |-> val]

\* c.DefaultQuery: a query parameter is << >> when the key is absent and
\* <<value>> when it is present (the value may be the empty string).
DefaultQueryTen(param, default) == IF param = << >> THEN <<"1", "0">> ELSE param[1]

DefaultQuery(param, default) == IF param = << >> THEN default ELSE param[1]

----------------------------------------------------------------------------
(* strings.Split(text, "\n\n"): cut at the leftmost delimiter, repeat on   *)
(* the rest; a text without the delimiter is one verse.                    *)

\* strings.Index(s, "\n\n") + 1, or 0 when the delimiter does not occur.
IndexDelim(s) ==
    LET hits == { i \in 1..(Len(s) - 1) : s[i] = "\n" /\ s[i + 1] = "\n" }
    IN  IF hits = {} THEN 0 ELSE CHOOSE i \in hits : \A j \in hits : i <= j

RECURSIVE SplitVerses(_)
SplitVerses(s) ==
    LET m == IndexDelim(s)
    IN  IF m = 0 THEN << s >>
        ELSE << SubSeq(s, 1, m - 1) >> \o SplitVerses(Drop(s, m + 1))

----------------------------------------------------------------------------
(* The clock and time.Parse("02.01.2006", s).  An instant is its UTC       *)
(* calendar date and hour; a parsed date is midnight UTC of that date.     *)

IsLeap(y) == y % 4 = 0 /\ (y % 100 # 0 \/ y % 400 = 0)

DaysIn(m, y) ==
    IF m = 2 THEN (IF IsLeap(y) THEN 29 ELSE 28)
    ELSE IF m \in {4, 6, 9, 11} THEN 30 ELSE 31

MkTime(y, m, d, h) == [year |-> y, month |-> m, day |-> d, hour |-> h]

ParseError == [err |-> TRUE, time |-> MkTime(0, 0, 0, 0)]

\* time.Parse with the layout "02.01.2006": a two-digit day, ".", a
\* two-digit month in 1..12, ".", a four-digit year, nothing after it, and a
\* day that exists in that month of that year.
ParseReleaseDate(s) ==
    IF ~(IsDigitAt(s, 0) /\ IsDigitAt(s, 1)) THEN ParseError
    ELSE
    LET day == DecimalValue(SubSeq(s, 1, 2))
        r1  == Drop(s, 2)
    IN  IF ~(Len(r1) > 0 /\ r1[1] = ".") THEN ParseError
        ELSE
        LET r2 == Drop(r1, 1)
        IN  IF ~(IsDigitAt(r2, 0) /\ IsDigitAt(r2, 1)) THEN ParseError
            ELSE
            LET month == DecimalValue(SubSeq(r2, 1, 2))
                r3    == Drop(r2, 2)
            IN  IF month <= 0 \/ 12 < month THEN ParseError
                ELSE IF ~(Len(r3) > 0 /\ r3[1] = ".") THEN ParseError
                ELSE
                LET r4 == Drop(r3, 1)
                IN  IF Len(r4) < 4 \/ ~AllDigits(SubSeq(r4, 1, 4)) THEN ParseError
                    ELSE
                    LET year == DecimalValue(SubSeq(r4, 1, 4))
                    IN  IF Drop(r4, 4) # << >> THEN ParseError
                        ELSE IF day < 1 \/ day > DaysIn(month, year) THEN ParseError
                        ELSE [err |-> FALSE, time |-> MkTime(year, month, day, 0)]

\* Time.Truncate(24 * time.Hour): Truncate works on the absolute time, so the
\* result is midnight UTC of the instant's UTC date.
Truncate24h(t) == [t EXCEPT !.hour = 0]

\* After that also holds of equal instants.
AfterOrEqual(a, b) ==
    \/ a.year > b.year
    \/ a.year = b.year /\ a.month > b.month
    \/ a.year = b.year /\ a.month = b.month /\ a.day > b.day
    \/ a.year = b.year /\ a.month = b.month /\ a.day = b.day /\ a.hour >= b.hour

\* Time.After
After(a, b) ==
    \/ a.year > b.year
    \/ a.year = b.year /\ a.month > b.month
    \/ a.year = b.year /\ a.month = b.month /\ a.day > b.day
    \/ a.year = b.year /\ a.month = b.month /\ a.day = b.day /\ a.hour > b.hour

ErrDateFormat == "Invalid date format. Expected format: DD.MM.YYYY"
ErrFutureDate == "Release date cannot be in the future"

\* The check both GetAllSongs and UpdateSong run on a non-empty release date:
\* "" when the date passes, otherwise the error message of the 400 response.
ReleaseDateError(s, t) ==
    LET parsed == ParseReleaseDate(s)
    IN  IF parsed.err THEN ErrDateFormat
        ELSE IF After(parsed.time, Truncate24h(t)) THEN ErrFutureDate
        ELSE ""

----------------------------------------------------------------------------
(* The songs table through GORM.  The primary key is the domain of the     *)
(* function; PostgreSQL takes ids from a sequence and never reuses one.    *)

NotFoundRow == [err |-> TRUE, song |-> NoSong]

\* database.DB.First(&song, id)
FirstById(st, id) ==
    IF id \in DOMAIN st THEN [err |-> FALSE, song |-> st[id]] ELSE NotFoundRow

\* FirstBySongGroup with the two arguments of Where in the other order.
FirstBySongGroupSwapped(st, song, group) ==
    LET hits == { i \in DOMAIN st : st[i].song = group /\ st[i].group = song }
    IN  IF hits = {} THEN NotFoundRow
        ELSE [err |-> FALSE,
              song |-> st[CHOOSE i \in hits : \A j \in hits : i <= j]]

\* database.DB.Where("song = ? AND \"group\" = ?", song, group).First(&existing):
\* First orders by the primary key.
FirstBySongGroup(st, song, group) ==
    LET hits == { i \in DOMAIN st : st[i].song = song /\ st[i].group = group }
    IN  IF hits = {} THEN NotFoundRow
        ELSE [err |-> FALSE,
              song |-> st[CHOOSE i \in hits : \A j \in hits : i <= j]]

\* database.DB.Create(&newSong): the row gets the next id of the sequence.
DBCreate(st, nid, song) ==
    [i \in (DOMAIN st) \cup {nid} |->
        IF i = nid THEN [song EXCEPT !.id = nid] ELSE st[i]]

\* AssignNonZero writing every field of the body, the zero ones too (Save).
AssignAll(song, input) ==
    [id           |-> song.id,
     group        |-> input.group,
     song         |-> input.song,
     release_date |-> input.release_date,
     text         |-> input.text,
     link         |-> input.link]

\* The assignments of Updates(input) with a struct: the non-zero fields only.
AssignNonZero(song, input) ==
    [id           |-> IF input.id # 0 THEN input.id ELSE song.id,
     group        |-> IF input.group # << >> THEN input.group ELSE song.group,
     song         |-> IF input.song # << >> THEN input.song ELSE song.song,
     release_date |-> IF input.release_date # << >> THEN input.release_date
                      ELSE song.release_date,
     text         |-> IF input.text # << >> THEN input.text ELSE song.text,
     link         |-> IF input.link # "" THEN input.link ELSE song.link]

\* database.DB.Model(&song).Updates(input): UPDATE songs SET <non-zero fields>
\* WHERE id = song.ID.  No row matching is no error; a new id that another
\* row holds violates the primary key.
DBUpdates(st, id, input) ==
    IF id \notin DOMAIN st THEN [err |-> FALSE, store |-> st]
    ELSE
    LET row == AssignNonZero(st[id], input)
    IN  IF row.id = id THEN [err |-> FALSE, store |-> [st EXCEPT ![id] = row]]
        ELSE IF row.id \in DOMAIN st THEN [err |-> TRUE, store |-> st]
        ELSE [err |-> FALSE,
              store |-> [i \in ((DOMAIN st) \ {id}) \cup {row.id} |->
                            IF i = row.id THEN row ELSE st[i]]]

\* DBDelete without the WHERE clause: every row goes.
DBDeleteAll(st, id) == [i \in {} |-> st[i]]

\* database.DB.Delete(&song): DELETE FROM songs WHERE id = song.ID.
DBDelete(st, id) == [i \in (DOMAIN st) \ {id} |-> st[i]]

----------------------------------------------------------------------------
(* utils.FetchSongDetails: one GET to the enrichment service.  A reply is  *)
(* what the service did: the transport failed, or it answered with a       *)
(* status and a body that decodes to a SongDetail or does not.             *)

MkReply(transportErr, status, decodes, releaseDate, text, link) ==
    [transportErr |-> transportErr, status |-> status, decodes |-> decodes,
     detail |-> [releaseDate |-> releaseDate, text |-> text, link |-> link]]

NoDetail == [releaseDate |-> << >>, text |-> << >>, link |-> ""]

\* FetchSongDetails without the check of the status code.
FetchSongDetailsAnyStatus(reply) ==
    IF reply.transportErr THEN [err |-> TRUE, detail |-> NoDetail]
    ELSE IF ~reply.decodes THEN [err |-> TRUE, detail |-> NoDetail]
    ELSE [err |-> FALSE, detail |-> reply.detail]

FetchSongDetails(reply) ==
    IF reply.transportErr THEN [err |-> TRUE, detail |-> NoDetail]
    ELSE IF reply.status # 200 THEN [err |-> TRUE, detail |-> NoDetail]
    ELSE IF ~reply.decodes THEN [err |-> TRUE, detail |-> NoDetail]
    ELSE [err |-> FALSE, detail |-> reply.detail]

----------------------------------------------------------------------------
(* Responses.  One record shape for every handler; the fields a handler    *)
(* does not write keep their zero values.                                  *)

NoResp ==
    [op |-> "none", id |-> 0, status |-> 0, error |-> "", song |-> NoSong,
     verses |-> << >>, songs |-> << >>, page |-> 0, limit |-> 0, total |-> 0,
     enrichCalls |-> 0, storeFailed |-> FALSE]

ErrorResp(op, id, status, error) ==
    [NoResp EXCEPT !.op = op, !.id = id, !.status = status, !.error = error]

ErrSongNotFound == "Song not found"
ErrInvalidPage == "Invalid page parameter"
ErrInvalidLimit == "Invalid limit parameter"
ErrBind == "bind error"
ErrSongExists == "Song already exists in the library"
ErrFetch == "Failed to fetch song details"
ErrSave == "Failed to save the song"
ErrChangeId == "Changing the song ID is not allowed"
ErrUpdate == "Failed to update the song"
ErrDelete == "Failed to delete the song"
ErrFind == "Failed to retrieve songs"

\* The calls on the table that a handler makes, by the name a fault is
\* injected under: a call named in faults returns an error that is not
\* "record not found" (a lost connection, a timeout).  storeFailed of a
\* response records that such a call was made and failed.
StoreCalls == {"first", "check", "insert", "updates", "delete", "count", "find"}

FailedStore(r) == [r EXCEPT !.storeFailed = TRUE]

\* The result of a lookup that fails when failed holds.
LookupOr(failed, result) == IF failed THEN NotFoundRow ELSE result

----------------------------------------------------------------------------
(* GetSongVerses                                                           *)

\* The page of verses: start = (page-1)*limit, end = start+limit clamped to
\* the number of verses; no verse when start is at or beyond the end.  The
\* slice expression verses[start:end] panics unless 0 <= start <= end.
VerseStart(page, limit) == WrapInt((page - 1) * limit)

VerseEnd(total, page, limit) ==
    LET end == WrapInt(VerseStart(page, limit) + limit)
    IN  IF end > total THEN total ELSE end

VersePage(verses, page, limit) ==
    LET start   == VerseStart(page, limit)
        clamped == VerseEnd(Len(verses), page, limit)
    IN  IF start >= Len(verses) THEN [panic |-> FALSE, verses |-> << >>]
        ELSE IF start < 0 \/ start > clamped THEN [panic |-> TRUE, verses |-> << >>]
        ELSE [panic |-> FALSE, verses |-> SubSeq(verses, start + 1, clamped)]

\* The handler's response for a table st.  A panic is recovered by the
\* router's Recovery middleware, which answers 500 with no body.
VersesResponseF(st, id, pageParam, limitParam, faults) ==
    LET found == LookupOr("first" \in faults, FirstById(st, id))
        notFound == ErrorResp("verses", id, 404, ErrSongNotFound)
        page  == Atoi(DefaultQuery(pageParam, <<"1">>))
        limit == Atoi(DefaultQuery(limitParam, <<"1">>))
        verses == SplitVerses(found.song.text)
        paged == VersePage(verses, page.val, limit.val)
    IN  IF found.err
             THEN IF "first" \in faults THEN FailedStore(notFound) ELSE notFound
        ELSE IF page.err \/ page.val < 1
             THEN ErrorResp("verses", id, 400, ErrInvalidPage)
        ELSE IF limit.err \/ limit.val < 1
             THEN ErrorResp("verses", id, 400, ErrInvalidLimit)
        ELSE IF paged.panic
             THEN ErrorResp("verses", id, 500, "")
        ELSE [NoResp EXCEPT
                !.op = "verses", !.id = id, !.status = 200,
                !.song = [NoSong EXCEPT !.song = found.song.song,
                                        !.group = found.song.group,
                                        !.release_date = found.song.release_date],
                !.verses = paged.verses,
                !.page = page.val, !.limit = limit.val,
                !.total = Len(verses)]

VersesResponse(st, id, pageParam, limitParam) ==
    VersesResponseF(st, id, pageParam, limitParam, {})

GetSongVersesF(id, pageParam, limitParam, faults) ==
    /\ resp' = VersesResponseF(store, id, pageParam, limitParam, faults)
    /\ UNCHANGED <<store, nextId, now, procs>>

GetSongVerses(id, pageParam, limitParam) ==
    /\ resp' = VersesResponse(store, id, pageParam, limitParam)
    /\ UNCHANGED <<store, nextId, now, procs>>

----------------------------------------------------------------------------
(* CreateSong                                                              *)

\* c.ShouldBindJSON(&input) into models.SongInput: the body must be JSON and
\* carry a non-empty group and song (binding:"required"); every other field
\* of the body is dropped.
BindSongInput(body) ==
    IF ~body.wellformed \/ body.group = << >> \/ body.song = << >>
    THEN [err |-> TRUE, group |-> << >>, song |-> << >>]
    ELSE [err |-> FALSE, group |-> body.group, song |-> body.song]

\* NewSong without the release date of the SongDetail.
NewSongNoReleaseDate(input, detail) ==
    MkSong(0, input.group, input.song, << >>, detail.text, detail.link)

\* newSong := models.Song{...}
NewSong(input, detail) ==
    MkSong(0, input.group, input.song, detail.releaseDate, detail.text, detail.link)

\* The handler's outcome for a table st: the response, and the row to insert
\* when there is one.
\* The existence check goes on to the enrichment call on any error of the
\* lookup (err == nil is the only test), a failed one included.
CreateOutcomeF(st, nid, body, reply, faults) ==
    LET input    == BindSongInput(body)
        existing == LookupOr("check" \in faults,
                             FirstBySongGroup(st, input.song, input.group))
        fetched  == FetchSongDetails(reply)
        created  == [NewSong(input, fetched.detail) EXCEPT !.id = nid]
        ghost(r) == IF "check" \in faults THEN FailedStore(r) ELSE r
    IN  IF input.err
        THEN [insert |-> FALSE, row |-> NoSong,
              resp |-> ErrorResp("create", 0, 400, ErrBind)]
        ELSE IF ~existing.err
        THEN [insert |-> FALSE, row |-> NoSong,
              resp |-> ErrorResp("create", 0, 409, ErrSongExists)]
        ELSE IF fetched.err
        THEN [insert |-> FALSE, row |-> NoSong,
              resp |-> ghost([ErrorResp("create", 0, 500, ErrFetch)
                                 EXCEPT !.enrichCalls = 1])]
        ELSE IF "insert" \in faults
        THEN [insert |-> FALSE, row |-> NoSong,
              resp |-> FailedStore([ErrorResp("create", 0, 500, ErrSave)
                                       EXCEPT !.enrichCalls = 1])]
        ELSE [insert |-> TRUE, row |-> created,
              resp |-> ghost([NoResp EXCEPT !.op = "create", !.id = nid,
                                            !.status = 200, !.song = created,
                                            !.enrichCalls = 1])]

CreateOutcome(st, nid, body, reply) == CreateOutcomeF(st, nid, body, reply, {})

CreateSongF(body, reply, faults) ==
    LET out == CreateOutcomeF(store, nextId, body, reply, faults)
    IN  /\ out.insert => nextId <= MaxSongs
        /\ resp' = out.resp
        /\ store' = IF out.insert THEN DBCreate(store, nextId, out.row) ELSE store
        /\ nextId' = IF out.insert THEN nextId + 1 ELSE nextId
        /\ UNCHANGED <<now, procs>>

CreateSong(body, reply) ==
    LET out == CreateOutcome(store, nextId, body, reply)
    IN  /\ out.insert => nextId <= MaxSongs
        /\ resp' = out.resp
        /\ store' = IF out.insert THEN DBCreate(store, nextId, out.row) ELSE store
        /\ nextId' = IF out.insert THEN nextId + 1 ELSE nextId
        /\ UNCHANGED <<now, procs>>

----------------------------------------------------------------------------
(* UpdateSong                                                              *)

\* UpdateInputError without the check of the id.
UpdateInputErrorNoIdCheck(song, body, t) ==
    IF ~body.wellformed THEN ErrBind
    ELSE IF body.release_date # << >> THEN ReleaseDateError(body.release_date, t)
    ELSE ""

\* UpdateInputError without the check of the release date.
UpdateInputErrorNoDateCheck(song, body, t) ==
    IF ~body.wellformed THEN ErrBind
    ELSE IF body.id # 0 /\ body.id # song.id THEN ErrChangeId
    ELSE ""

\* The checks on the bound body, in the order of the handler: "" when the
\* update goes ahead, otherwise the message of the 400 response.
UpdateInputError(song, body, t) ==
    IF ~body.wellformed THEN ErrBind
    ELSE IF body.id # 0 /\ body.id # song.id THEN ErrChangeId
    ELSE IF body.release_date # << >> THEN ReleaseDateError(body.release_date, t)
    ELSE ""

\* UpdateOutcome writing the body before it validates it.
UpdateOutcomeWriteFirst(st, id, body, t) ==
    LET found   == FirstById(st, id)
        invalid == UpdateInputError(found.song, body, t)
        updated == DBUpdates(st, found.song.id, body)
    IN  IF found.err
        THEN [store |-> st, resp |-> ErrorResp("update", id, 404, ErrSongNotFound)]
        ELSE IF updated.err
        THEN [store |-> st, resp |-> ErrorResp("update", id, 500, ErrUpdate)]
        ELSE IF invalid # ""
        THEN [store |-> updated.store, resp |-> ErrorResp("update", id, 400, invalid)]
        ELSE [store |-> updated.store,
              resp |-> [NoResp EXCEPT !.op = "update", !.id = id, !.status = 200,
                                      !.song = AssignNonZero(found.song, body)]]

\* UpdateOutcome validating the body before it looks the song up.
UpdateOutcomeValidateFirst(st, id, body, t) ==
    LET found   == FirstById(st, id)
        invalid == UpdateInputError(found.song, body, t)
        updated == DBUpdates(st, found.song.id, body)
    IN  IF invalid # ""
        THEN [store |-> st, resp |-> ErrorResp("update", id, 400, invalid)]
        ELSE IF found.err
        THEN [store |-> st, resp |-> ErrorResp("update", id, 404, ErrSongNotFound)]
        ELSE IF updated.err
        THEN [store |-> st, resp |-> ErrorResp("update", id, 500, ErrUpdate)]
        ELSE [store |-> updated.store,
              resp |-> [NoResp EXCEPT !.op = "update", !.id = id, !.status = 200,
                                      !.song = AssignNonZero(found.song, body)]]

\* UpdateOutcome answering with the song as First read it.
UpdateOutcomeReturnsOld(st, id, body, t) ==
    LET found   == FirstById(st, id)
        invalid == UpdateInputError(found.song, body, t)
        updated == DBUpdates(st, found.song.id, body)
    IN  IF found.err
        THEN [store |-> st, resp |-> ErrorResp("update", id, 404, ErrSongNotFound)]
        ELSE IF invalid # ""
        THEN [store |-> st, resp |-> ErrorResp("update", id, 400, invalid)]
        ELSE IF updated.err
        THEN [store |-> st, resp |-> ErrorResp("update", id, 500, ErrUpdate)]
        ELSE [store |-> updated.store,
              resp |-> [NoResp EXCEPT !.op = "update", !.id = id, !.status = 200,
                                      !.song = found.song]]

UpdateOutcomeF(st, id, body, t, faults) ==
    LET found   == LookupOr("first" \in faults, FirstById(st, id))
        invalid == UpdateInputError(found.song, body, t)
        updated == DBUpdates(st, found.song.id, body)
        notFound == ErrorResp("update", id, 404, ErrSongNotFound)
        failed   == ErrorResp("update", id, 500, ErrUpdate)
    IN  IF found.err
        THEN [store |-> st,
              resp |-> IF "first" \in faults THEN FailedStore(notFound) ELSE notFound]
        ELSE IF invalid # ""
        THEN [store |-> st, resp |-> ErrorResp("update", id, 400, invalid)]
        ELSE IF "updates" \in faults
        THEN [store |-> st, resp |-> FailedStore(failed)]
        ELSE IF updated.err
        THEN [store |-> st, resp |-> FailedStore(failed)]
        ELSE [store |-> updated.store,
              resp |-> [NoResp EXCEPT !.op = "update", !.id = id, !.status = 200,
                                      !.song = AssignNonZero(found.song, body)]]

UpdateOutcome(st, id, body, t) == UpdateOutcomeF(st, id, body, t, {})

UpdateSongF(id, body, faults) ==
    LET out == UpdateOutcomeF(store, id, body, now, faults)
    IN  /\ resp' = out.resp
        /\ store' = out.store
        /\ UNCHANGED <<nextId, now, procs>>

UpdateSong(id, body) ==
    LET out == UpdateOutcome(store, id, body, now)
    IN  /\ resp' = out.resp
        /\ store' = out.store
        /\ UNCHANGED <<nextId, now, procs>>

----------------------------------------------------------------------------
(* DeleteSong                                                              *)

\* DeleteOutcome without the lookup: DELETE and 200 whatever the id.
DeleteOutcomeNoLookup(st, id) ==
    [store |-> DBDelete(st, id),
     resp |-> [NoResp EXCEPT !.op = "delete", !.id = id, !.status = 200]]

DeleteOutcomeF(st, id, faults) ==
    LET found == LookupOr("first" \in faults, FirstById(st, id))
        notFound == ErrorResp("delete", id, 404, ErrSongNotFound)
    IN  IF found.err
        THEN [store |-> st,
              resp |-> IF "first" \in faults THEN FailedStore(notFound) ELSE notFound]
        ELSE IF "delete" \in faults
        THEN [store |-> st,
              resp |-> FailedStore(ErrorResp("delete", id, 500, ErrDelete))]
        ELSE [store |-> DBDelete(st, found.song.id),
              resp |-> [NoResp EXCEPT !.op = "delete", !.id = id, !.status = 200]]

DeleteOutcome(st, id) == DeleteOutcomeF(st, id, {})

DeleteSongF(id, faults) ==
    LET out == DeleteOutcomeF(store, id, faults)
    IN  /\ resp' = out.resp
        /\ store' = out.store
        /\ UNCHANGED <<nextId, now, procs>>

DeleteSong(id) ==
    LET out == DeleteOutcome(store, id)
    IN  /\ resp' = out.resp
        /\ store' = out.store
        /\ UNCHANGED <<nextId, now, procs>>

----------------------------------------------------------------------------
(* GetAllSongs                                                             *)

ErrCount == "Failed to retrieve total count"

ToLower(c) ==
    CASE c = "A" -> "a" [] c = "X" -> "x" [] c = "Y" -> "y" [] OTHER -> c

LowerOf(s) == [i \in 1..Len(s) |-> ToLower(s[i])]

\* s LIKE pattern: "%" stands for any sequence of characters, "_" for any
\* one character, any other character for itself (the patterns of the model
\* hold no backslash).
RECURSIVE LikeMatch(_, _)
LikeMatch(s, pattern) ==
    IF pattern = << >> THEN s = << >>
    ELSE IF pattern[1] = "%"
         THEN \/ LikeMatch(s, Drop(pattern, 1))
              \/ s # << >> /\ LikeMatch(Drop(s, 1), pattern)
    ELSE IF pattern[1] = "_"
         THEN s # << >> /\ LikeMatch(Drop(s, 1), Drop(pattern, 1))
    ELSE s # << >> /\ s[1] = pattern[1] /\ LikeMatch(Drop(s, 1), Drop(pattern, 1))

\* column ILIKE ? with "%"+filter+"%" as the argument: the filter is part of
\* the pattern as the caller wrote it, its "%" and "_" included.
ILike(value, filter) ==
    LikeMatch(LowerOf(value), <<"%">> \o LowerOf(filter) \o <<"%">>)

\* The columns AutoMigrate creates for models.Song under GORM's naming.
SongColumns == {"id", "group", "song", "release_date", "text", "link"}

\* The rows of a set of ids in ascending order of the primary key.
RECURSIVE RowsById(_, _)
RowsById(st, ids) ==
    IF ids = {} THEN << >>
    ELSE LET least == CHOOSE i \in ids : \A j \in ids : i <= j
         IN  << st[least] >> \o RowsById(st, ids \ {least})

\* q: the query string; group, song and releaseDate are "" when absent.
ListResponseF(st, q, t, faults) ==
    LET page    == Atoi(DefaultQuery(q.page, <<"1">>))
        limit   == Atoi(DefaultQuery(q.limit, <<"5">>))
        dateErr == IF q.releaseDate # << >> THEN ReleaseDateError(q.releaseDate, t)
                   ELSE ""
        \* query.Where("\"releaseDate\" = ?", releaseDate) names a column
        queryErr == q.releaseDate # << >> /\ "releaseDate" \notin SongColumns
        ids     == { i \in DOMAIN st :
                       /\ q.group # << >> => ILike(st[i].group, q.group)
                       /\ q.song # << >> => ILike(st[i].song, q.song)
                       /\ q.releaseDate # << >> => st[i].release_date = q.releaseDate }
        rows    == RowsById(st, ids)
        offset  == WrapInt((page.val - 1) * limit.val)
        \* GORM writes no OFFSET clause unless the offset is above 0
        skipped == IF offset > 0 THEN offset ELSE 0
    IN  IF page.err \/ page.val < 1 THEN ErrorResp("list", 0, 400, ErrInvalidPage)
        ELSE IF limit.err \/ limit.val < 1 THEN ErrorResp("list", 0, 400, ErrInvalidLimit)
        ELSE IF dateErr # "" THEN ErrorResp("list", 0, 400, dateErr)
        ELSE IF queryErr \/ "count" \in faults
             THEN FailedStore(ErrorResp("list", 0, 500, ErrCount))
        ELSE IF "find" \in faults
             THEN FailedStore(ErrorResp("list", 0, 500, ErrFind))
        ELSE [NoResp EXCEPT
                !.op = "list", !.status = 200, !.total = Len(rows),
                !.page = page.val, !.limit = limit.val,
                !.songs = SubSeq(rows, skipped + 1, Min(skipped + limit.val, Len(rows)))]

ListResponse(st, q, t) == ListResponseF(st, q, t, {})

GetAllSongsF(q, faults) ==
    /\ resp' = ListResponseF(store, q, now, faults)
    /\ UNCHANGED <<store, nextId, now, procs>>

GetAllSongs(q) ==
    /\ resp' = ListResponse(store, q, now)
    /\ UNCHANGED <<store, nextId, now, procs>>

MkQuery(group, song, releaseDate, page, limit) ==
    [group |-> group, song |-> song, releaseDate |-> releaseDate,
     page |-> page, limit |-> limit]

----------------------------------------------------------------------------
(* The requests of the specifications.                                     *)

Groups == { <<"a">>, <<"A">> }
SongNames == { <<"x">> }

Date0 == <<"1", "6", ".", "0", "7", ".", "2", "0", "0", "6">>    \* 16.07.2006
DateU == <<"0", "1", ".", "0", "3", ".", "2", "0", "2", "4">>    \* 01.03.2024
DateFuture == <<"0", "2", ".", "0", "3", ".", "2", "0", "2", "4">> \* 02.03.2024
DateIso == <<"2", "0", "2", "4", "-", "0", "3", "-", "0", "1">>  \* 2024-03-01

\* "a\n\nb\n\nc": three verses; "b": one verse.
Text0 == <<"a", "\n", "\n", "b", "\n", "\n", "c">>
TextU == <<"b">>

Now0 == MkTime(2024, 3, 1, 13)

\* The path parameter: every id ever assigned, and one that never is.
PathIds == 1..(MaxSongs + 1)

\* Replies of the enrichment service: one that succeeds, and one for each way
\* FetchSongDetails fails.
ReplyOk == MkReply(FALSE, 200, TRUE, Date0, Text0, "l0")
EnrichReplies ==
    { ReplyOk,
      MkReply(TRUE, 0, FALSE, << >>, << >>, ""),
      MkReply(FALSE, 500, TRUE, Date0, Text0, "l0"),
      MkReply(FALSE, 200, FALSE, << >>, << >>, "") }

\* Bodies of POST /songs: group and song, present or not, the fields a caller
\* may add although SongInput does not have them, and a body that is no JSON.
MkCreateBody(wellformed, group, song, releaseDate, text, link) ==
    [wellformed |-> wellformed, group |-> group, song |-> song,
     release_date |-> releaseDate, text |-> text, link |-> link]

CreateBodies ==
    { MkCreateBody(TRUE, g, s, << >>, << >>, "") :
        g \in Groups \cup { << >> }, s \in SongNames \cup { << >> } }
    \cup { MkCreateBody(TRUE, <<"a">>, <<"x">>, DateU, TextU, "lU"),
           MkCreateBody(FALSE, << >>, << >>, << >>, << >>, "") }

\* Bodies of PATCH /songs/:id.  A field is absent (its zero value) or
\* supplied: no field, one field, two fields, every field, a body that also
\* names an id, a date that is in the future or in another format, and a
\* body that is no JSON.
MkUpdateBody(wellformed, id, group, song, releaseDate, text, link) ==
    [wellformed |-> wellformed, id |-> id, group |-> group, song |-> song,
     release_date |-> releaseDate, text |-> text, link |-> link]

UpdateBodies ==
    { MkUpdateBody(TRUE, 0, << >>, << >>, << >>, << >>, ""),
      MkUpdateBody(TRUE, 0, << >>, << >>, << >>, TextU, ""),
      MkUpdateBody(TRUE, 0, <<"A">>, << >>, << >>, << >>, "lU"),
      MkUpdateBody(TRUE, 0, << >>, <<"x", "y">>, DateU, << >>, ""),
      MkUpdateBody(TRUE, 0, <<"A">>, <<"x", "y">>, DateU, TextU, "lU"),
      MkUpdateBody(TRUE, 0, << >>, << >>, DateFuture, TextU, ""),
      MkUpdateBody(TRUE, 0, << >>, << >>, DateIso, << >>, "lU"),
      MkUpdateBody(FALSE, 0, << >>, << >>, << >>, << >>, "") }
    \cup { MkUpdateBody(TRUE, i, << >>, << >>, << >>, TextU, "") : i \in 1..MaxSongs }

\* Query parameters page and limit: absent, or present with a value.
PageParams == { << >>, << <<"2">> >>, << <<"0">> >> }

----------------------------------------------------------------------------
(* The service with one request handled at a time.                         *)

\* A serving goroutine: where it stands in CreateSong, the body it was sent,
\* the SongDetail it fetched, and the status and song it answered with.
\* fresh records that no song had the body's (group, song) when it arrived.
\* For UpdateSong and DeleteSong: op names the handler, id is c.Param("id"),
\* found the song First read; existed records that a song had the id when
\* the request arrived and rows is the RowsAffected of its statement.
IdleProc ==
    [pc |-> "idle", body |-> MkCreateBody(FALSE, << >>, << >>, << >>, << >>, ""),
     detail |-> NoDetail, fresh |-> FALSE, status |-> 0, song |-> NoSong,
     op |-> "none", id |-> 0, found |-> NoSong, existed |-> FALSE, rows |-> 0]

NoProcs == [p \in 1..NumProcs |-> IdleProc]

Init ==
    /\ store = [i \in {} |-> NoSong]
    /\ nextId = 1
    /\ now = Now0
    /\ resp = NoResp
    /\ procs = NoProcs

Next ==
    \/ \E body \in CreateBodies, reply \in EnrichReplies : CreateSong(body, reply)
    \/ \E id \in PathIds, body \in UpdateBodies : UpdateSong(id, body)
    \/ \E id \in PathIds : DeleteSong(id)
    \/ \E id \in PathIds, page \in PageParams, limit \in PageParams :
          GetSongVerses(id, page, limit)

Spec == Init /\ [][Next]_vars

----------------------------------------------------------------------------
(* Verses: one song whose text is any text of at most MaxTextLen           *)
(* characters, read with small and with large page and limit parameters.   *)

VerseTexts == SeqsUpTo({"a", "\n"}, MaxTextLen)

DigitOf(n) ==
    CASE n = 0 -> "0" [] n = 1 -> "1" [] n = 2 -> "2" [] n = 3 -> "3"
      [] n = 4 -> "4" [] n = 5 -> "5" [] n = 6 -> "6" [] n = 7 -> "7"
      [] n = 8 -> "8" [] n = 9 -> "9"

\* The decimal spelling of a natural number.
RECURSIVE Itoa(_)
Itoa(n) == IF n < 10 THEN << DigitOf(n) >> ELSE Append(Itoa(n \div 10), DigitOf(n % 10))

\* The numbers from 1 on asked for as page and limit: the small ones, a
\* quarter of the range of int plus one, and the largest int.
VerseNumbers == (1..MaxPage) \cup { 2 ^ (IntBits - 2) + 1, MaxInt }

\* page and limit: absent, empty, no number, negative, 0, a number from 1 on,
\* or a number beyond the range of int.
VerseParams ==
    { << >>, << << >> >>, << <<"x">> >>, << <<"-", "1">> >>, << <<"0">> >>,
      << Itoa(MaxInt + 1) >> }
    \cup { << Itoa(n) >> : n \in VerseNumbers }

NextVerses ==
    \/ \E text \in VerseTexts :
          /\ nextId = 1
          /\ CreateSong(MkCreateBody(TRUE, <<"a">>, <<"x">>, << >>, << >>, ""),
                        MkReply(FALSE, 200, TRUE, Date0, text, "l0"))
    \/ \E id \in PathIds, page \in VerseParams, limit \in VerseParams :
          GetSongVerses(id, page, limit)

SpecVerses == Init /\ [][NextVerses]_vars

----------------------------------------------------------------------------
(* Dates: one song, updated and listed with any release date of a set of   *)
(* strings, at several instants of the clock.                              *)

\* n written with two and with four decimal digits.
TwoDigits(n) == << DigitOf((n \div 10) % 10), DigitOf(n % 10) >>
FourDigits(n) == TwoDigits(n \div 100) \o TwoDigits(n % 100)

\* The string DD.MM.YYYY of a day, a month and a year.
DateString(d, m, y) == TwoDigits(d) \o <<".">> \o TwoDigits(m) \o <<".">> \o FourDigits(y)

DateYears == {2023, 2024}
DateMonths == {0, 2, 3, 4, 12, 13}
DateDays == {0, 1, 28, 29, 30, 31, 32}

\* Strings of the shape DD.MM.YYYY, dates of the calendar or not.
ShapedDates == { DateString(d, m, y) : d \in DateDays, m \in DateMonths, y \in DateYears }

\* Strings of other shapes.
UnshapedDates ==
    { <<"1", ".", "0", "3", ".", "2", "0", "2", "4">>,            \* 1.03.2024
      <<"0", "1", ".", "3", ".", "2", "0", "2", "4">>,            \* 01.3.2024
      <<"0", "1", ".", "0", "3", ".", "2", "4">>,                 \* 01.03.24
      <<"0", "1", ".", "0", "3", ".", "2", "0", "2", "4", "0">>,  \* 01.03.20240
      <<"0", "1", ".", "0", "3", ".", "2", "0", "2", "4", " ">>,  \* trailing space
      <<" ", "0", "1", ".", "0", "3", ".", "2", "0", "2", "4">>,  \* leading space
      <<"0", "1", "-", "0", "3", "-", "2", "0", "2", "4">>,       \* 01-03-2024
      <<"0", "1", "/", "0", "3", "/", "2", "0", "2", "4">>,       \* 01/03/2024
      <<"0", "1", ".", "0", "3", ".", "2", "0", "x", "4">>,       \* 01.03.20x4
      <<"x", "1", ".", "0", "3", ".", "2", "0", "2", "4">>,       \* x1.03.2024
      <<"0", "1", "0", "3", "2", "0", "2", "4">>,                 \* 01032024
      <<"0", "1", ".", "0", "3">>,                                \* 01.03
      <<"x">>,
      DateIso }

DateStrings == ShapedDates \cup UnshapedDates

Nows == { MkTime(2024, 2, 29, 0), MkTime(2024, 3, 1, 13), MkTime(2023, 12, 31, 23) }

InitDates ==
    /\ store = [i \in {} |-> NoSong]
    /\ nextId = 1
    /\ now \in Nows
    /\ resp = NoResp
    /\ procs = NoProcs

NextDates ==
    \/ /\ nextId = 1
       /\ CreateSong(MkCreateBody(TRUE, <<"a">>, <<"x">>, << >>, << >>, ""), ReplyOk)
    \/ \E d \in DateStrings :
          UpdateSong(1, MkUpdateBody(TRUE, 0, << >>, << >>, d, << >>, ""))
    \/ \E d \in DateStrings :
          GetAllSongs(MkQuery(<< >>, << >>, d, << >>, << >>))

SpecDates == InitDates /\ [][NextDates]_vars

----------------------------------------------------------------------------
(* The router: the requests reach the handlers through the routes that     *)
(* SetupRouter registers; a path is the sequence of its segments.          *)

\* The routes of the group /songs; ":id" matches any one segment.
Routes ==
    { [method |-> "GET",    pattern |-> <<"songs">>,        handler |-> "GetAllSongs"],
      [method |-> "GET",    pattern |-> <<"songs", ":id">>, handler |-> "GetSongVerses"],
      [method |-> "POST",   pattern |-> <<"songs">>,        handler |-> "CreateSong"],
      [method |-> "PATCH",  pattern |-> <<"songs", ":id">>, handler |-> "UpdateSong"],
      [method |-> "DELETE", pattern |-> <<"songs", ":id">>, handler |-> "DeleteSong"] }

MatchPattern(pattern, path) ==
    /\ Len(pattern) = Len(path)
    /\ \A i \in 1..Len(pattern) : pattern[i] = ":id" \/ pattern[i] = path[i]

\* The handler of a request, "NoRoute" when no route matches.
Dispatch(method, path) ==
    LET hits == { r \in Routes : r.method = method /\ MatchPattern(r.pattern, path) }
    IN  IF hits = {} THEN "NoRoute" ELSE (CHOOSE r \in hits : TRUE).handler

\* gin's answer when no route matches.
ErrNoRoute == "404 page not found"

NoRoute ==
    /\ resp' = ErrorResp("noroute", 0, 404, ErrNoRoute)
    /\ UNCHANGED <<store, nextId, now, procs>>

\* The segment of an id, and c.Param("id") read as the key of the row.
IdSegment(id) == DigitOf(id)
ParamId(path) == DigitVal(path[2])

Methods == {"GET", "POST", "PATCH", "DELETE", "PUT"}

Paths ==
    { <<"songs">> }
    \cup { <<"songs", IdSegment(i)>> : i \in PathIds }
    \cup { <<"songs", IdSegment(i), "verses">> : i \in PathIds }

\* Query strings of GET /songs: no parameter, a filter, a page and a limit,
\* and a parameter of each invalid kind.
RouterQueries ==
    { MkQuery(<< >>, << >>, << >>, << >>, << >>),
      MkQuery(<<"a">>, << >>, << >>, << >>, << >>),
      MkQuery(<< >>, << >>, << >>, << <<"2">> >>, << <<"1">> >>),
      MkQuery(<< >>, << >>, << >>, << <<"0">> >>, << >>),
      MkQuery(<< >>, << >>, << >>, << >>, << <<"x">> >>),
      MkQuery(<< >>, << >>, DateFuture, << >>, << >>),
      MkQuery(<< >>, << >>, DateIso, << >>, << >>) }

Serve(method, path) ==
    LET handler == Dispatch(method, path)
    IN  \/ /\ handler = "GetAllSongs"
           /\ \E q \in RouterQueries : GetAllSongs(q)
        \/ /\ handler = "GetSongVerses"
           /\ \E page \in PageParams, limit \in PageParams :
                 GetSongVerses(ParamId(path), page, limit)
        \/ /\ handler = "CreateSong"
           /\ \E body \in CreateBodies, reply \in EnrichReplies : CreateSong(body, reply)
        \/ /\ handler = "UpdateSong"
           /\ \E body \in UpdateBodies : UpdateSong(ParamId(path), body)
        \/ /\ handler = "DeleteSong"
           /\ DeleteSong(ParamId(path))
        \/ /\ handler = "NoRoute"
           /\ NoRoute

NextRouter == \E method \in Methods, path \in Paths : Serve(method, path)

SpecRouter == Init /\ [][NextRouter]_vars

----------------------------------------------------------------------------
(* Query parameters: a few songs of different groups and release dates,    *)
(* listed with filters, pages and limits of every kind, and read verse by  *)
(* verse with the same pages and limits.                                   *)

ListReplies == { ReplyOk, MkReply(FALSE, 200, TRUE, DateU, TextU, "lU") }

\* The numbers from 1 on asked for as page and limit.
ListNumbers == { 1, 2, 2 ^ (IntBits - 2) + 1 }

\* page and limit that the handlers are to accept: absent, or a number.
ValidParams == { << >> } \cup { << Itoa(n) >> : n \in ListNumbers }

\* Present and not a number from 1 on: empty, letters, negative, zero, a
\* fraction, beyond the range of int.
InvalidParams ==
    { << << >> >>, << <<"x">> >>, << <<"-", "1">> >>, << <<"0">> >>,
      << <<"1", ".", "5">> >>, << Itoa(MaxInt + 1) >> }

\* Pairs of page and limit: both valid, or one invalid beside an absent or a
\* valid one, or both invalid.
ParamPairs ==
    (ValidParams \X ValidParams)
    \cup (InvalidParams \X { << >>, << <<"1">> >> })
    \cup ({ << >>, << <<"1">> >> } \X InvalidParams)
    \cup { << << <<"0">> >>, << <<"x">> >> >> }

\* Filters: none, a group, a song, a release date, a group and a date.
ListFilters ==
    { <<g, << >>, d>> : g \in { << >>, <<"a">> }, d \in { << >>, Date0, DateFuture } }
    \cup { << << >>, <<"X">>, << >> >> }

ListQueries ==
    { MkQuery(f[1], f[2], f[3], pl[1], pl[2]) :
        f \in ListFilters, pl \in ValidParams \X ValidParams }
    \cup { MkQuery(<< >>, << >>, << >>, pl[1], pl[2]) : pl \in ParamPairs }

NextList ==
    \/ \E g \in Groups, reply \in ListReplies :
          CreateSong(MkCreateBody(TRUE, g, <<"x">>, << >>, << >>, ""), reply)
    \/ \E q \in ListQueries : GetAllSongs(q)
    \/ \E id \in PathIds, pl \in ParamPairs : GetSongVerses(id, pl[1], pl[2])

SpecList == Init /\ [][NextList]_vars

----------------------------------------------------------------------------
(* Filters: songs of several groups and names, listed with a group filter, *)
(* a song filter, both or none, on the default page.                       *)

FilterGroups == { <<"a">>, <<"A">>, <<"b">> }
FilterSongs == { <<"x">>, <<"x", "y">> }

\* group: absent or empty, a letter in either case, and the characters "_"
\* and "%" a caller may search for.
GroupFilters == { << >>, <<"a">>, <<"b">>, <<"_">>, <<"%">> }

SongFilters == { << >>, <<"X">>, <<"y">>, <<"x", "_">> }

FilterQueries ==
    { MkQuery(g, s, << >>, << >>, << >>) : g \in GroupFilters, s \in SongFilters }

NextFilters ==
    \/ \E g \in FilterGroups, s \in FilterSongs :
          CreateSong(MkCreateBody(TRUE, g, s, << >>, << >>, ""), ReplyOk)
    \/ \E q \in FilterQueries : GetAllSongs(q)

SpecFilters == Init /\ [][NextFilters]_vars

----------------------------------------------------------------------------
(* Store failures: the handlers with any one call on the table failing,    *)
(* or none, or both calls of create.                                       *)

FaultSets == { {} } \cup { {c} : c \in StoreCalls } \cup { {"check", "insert"} }

FailBodies ==
    { MkCreateBody(TRUE, g, <<"x">>, << >>, << >>, "") : g \in Groups }

FailUpdates ==
    { MkUpdateBody(TRUE, 0, << >>, << >>, << >>, TextU, ""),
      MkUpdateBody(TRUE, 0, << >>, << >>, DateFuture, << >>, "") }

FailQueries ==
    { MkQuery(<< >>, << >>, << >>, << >>, << >>),
      MkQuery(<<"a">>, << >>, << >>, << <<"2">> >>, << <<"1">> >>) }

NextFail ==
    \E faults \in FaultSets :
        \/ \E body \in FailBodies, reply \in EnrichReplies : CreateSongF(body, reply, faults)
        \/ \E id \in PathIds, body \in FailUpdates : UpdateSongF(id, body, faults)
        \/ \E id \in PathIds : DeleteSongF(id, faults)
        \/ \E id \in PathIds, page \in PageParams :
              GetSongVersesF(id, page, << >>, faults)
        \/ \E q \in FailQueries : GetAllSongsF(q, faults)

SpecFail == Init /\ [][NextFail]_vars

----------------------------------------------------------------------------
(* CreateSong step by step, for requests served at the same time.  Each    *)
(* call on the table or on the enrichment service is one step.             *)

ConcBodies ==
    { MkCreateBody(TRUE, g, <<"x">>, << >>, << >>, "") : g \in Groups }
    \cup { MkCreateBody(TRUE, << >>, <<"x">>, << >>, << >>, "") }

ConcReplies == { ReplyOk, MkReply(FALSE, 500, TRUE, Date0, Text0, "l0") }

InFlight == { p \in 1..NumProcs : procs[p].pc \in {"check", "fetch", "insert"} }

\* The request arrives and gin starts the handler.
Receive(p, body) ==
    /\ procs[p].pc \in {"idle", "done"}
    /\ (nextId - 1) + Cardinality(InFlight) < MaxSongs
    /\ procs' = [procs EXCEPT ![p] =
                    [IdleProc EXCEPT
                        !.pc = "check", !.body = body,
                        !.fresh = FirstBySongGroup(store, body.song, body.group).err]]
    /\ UNCHANGED <<store, nextId, now, resp>>

\* ShouldBindJSON, then the lookup of a song with the same song and group.
CreateCheck(p) ==
    LET input    == BindSongInput(procs[p].body)
        existing == FirstBySongGroup(store, input.song, input.group)
    IN  /\ procs[p].pc = "check"
        /\ procs' = [procs EXCEPT ![p] =
                        IF input.err THEN [@ EXCEPT !.pc = "done", !.status = 400]
                        ELSE IF ~existing.err THEN [@ EXCEPT !.pc = "done", !.status = 409]
                        ELSE [@ EXCEPT !.pc = "fetch"]]
        /\ UNCHANGED <<store, nextId, now, resp>>

\* utils.FetchSongDetails
CreateFetch(p, reply) ==
    LET fetched == FetchSongDetails(reply)
    IN  /\ procs[p].pc = "fetch"
        /\ procs' = [procs EXCEPT ![p] =
                        IF fetched.err THEN [@ EXCEPT !.pc = "done", !.status = 500]
                        ELSE [@ EXCEPT !.pc = "insert", !.detail = fetched.detail]]
        /\ UNCHANGED <<store, nextId, now, resp>>

\* database.DB.Create(&newSong) and the 200 response.
CreateInsert(p) ==
    LET input   == BindSongInput(procs[p].body)
        created == [NewSong(input, procs[p].detail) EXCEPT !.id = nextId]
    IN  /\ procs[p].pc = "insert"
        /\ store' = DBCreate(store, nextId, created)
        /\ nextId' = nextId + 1
        /\ procs' = [procs EXCEPT ![p] =
                        [@ EXCEPT !.pc = "done", !.status = 200, !.song = created]]
        /\ UNCHANGED <<now, resp>>

NextConc ==
    \/ \E p \in 1..NumProcs, body \in ConcBodies : Receive(p, body)
    \/ \E p \in 1..NumProcs : CreateCheck(p)
    \/ \E p \in 1..NumProcs, reply \in ConcReplies : CreateFetch(p, reply)
    \/ \E p \in 1..NumProcs : CreateInsert(p)

SpecConc == Init /\ [][NextConc]_vars

----------------------------------------------------------------------------
(* UpdateSong and DeleteSong step by step, for requests served at the same *)
(* time.  Each call on the table is one step: GORM sends the SELECT of     *)
(* First and the UPDATE or DELETE as separate statements, each in its own  *)
(* transaction.  A goroutine serves one request.                           *)

\* The song the requests race for.
RaceBody == MkCreateBody(TRUE, <<"a">>, <<"x">>, << >>, << >>, "")

\* Bodies of PATCH: the text only, the link only, the group only, and a
\* release date that is rejected.
RaceUpdates ==
    { MkUpdateBody(TRUE, 0, << >>, << >>, << >>, TextU, ""),
      MkUpdateBody(TRUE, 0, << >>, << >>, << >>, << >>, "lU"),
      MkUpdateBody(TRUE, 0, <<"A">>, << >>, << >>, << >>, ""),
      MkUpdateBody(TRUE, 0, << >>, << >>, DateFuture, << >>, "") }

\* The id of that song: the first of the sequence.
RaceId == 1

\* The request arrives and gin starts the handler.
ReceiveDelete(p, id) ==
    /\ procs[p].pc = "idle"
    /\ procs' = [procs EXCEPT ![p] =
                    [IdleProc EXCEPT !.pc = "lookup", !.op = "delete", !.id = id,
                                     !.existed = id \in DOMAIN store]]
    /\ UNCHANGED <<store, nextId, now, resp>>

ReceiveUpdate(p, id, body) ==
    /\ procs[p].pc = "idle"
    /\ procs' = [procs EXCEPT ![p] =
                    [IdleProc EXCEPT !.pc = "lookup", !.op = "update", !.id = id,
                                     !.body = body,
                                     !.existed = id \in DOMAIN store]]
    /\ UNCHANGED <<store, nextId, now, resp>>

\* database.DB.First(&song, id) of DeleteSong.
DeleteLookup(p) ==
    LET found == FirstById(store, procs[p].id)
    IN  /\ procs[p].op = "delete" /\ procs[p].pc = "lookup"
        /\ procs' = [procs EXCEPT ![p] =
                        IF found.err THEN [@ EXCEPT !.pc = "done", !.status = 404]
                        ELSE [@ EXCEPT !.pc = "write", !.found = found.song]]
        /\ UNCHANGED <<store, nextId, now, resp>>

\* database.DB.Delete(&song) and the 200 response; a DELETE that matches no
\* row is no error.
DeleteWrite(p) ==
    LET id == procs[p].found.id
    IN  /\ procs[p].op = "delete" /\ procs[p].pc = "write"
        /\ store' = DBDelete(store, id)
        /\ procs' = [procs EXCEPT ![p] =
                        [@ EXCEPT !.pc = "done", !.status = 200, !.found = NoSong,
                                  !.rows = IF id \in DOMAIN store THEN 1 ELSE 0]]
        /\ UNCHANGED <<nextId, now, resp>>

\* database.DB.First(&song, id) of UpdateSong, then ShouldBindJSON and the
\* checks on the body.
UpdateLookup(p) ==
    LET found   == FirstById(store, procs[p].id)
        invalid == UpdateInputError(found.song, procs[p].body, now)
    IN  /\ procs[p].op = "update" /\ procs[p].pc = "lookup"
        /\ procs' = [procs EXCEPT ![p] =
                        IF found.err THEN [@ EXCEPT !.pc = "done", !.status = 404]
                        ELSE IF invalid # "" THEN [@ EXCEPT !.pc = "done", !.status = 400]
                        ELSE [@ EXCEPT !.pc = "write", !.found = found.song]]
        /\ UNCHANGED <<store, nextId, now, resp>>

\* database.DB.Model(&song).Updates(input) and the 200 response with song.
UpdateWrite(p) ==
    LET id      == procs[p].found.id
        updated == DBUpdates(store, id, procs[p].body)
    IN  /\ procs[p].op = "update" /\ procs[p].pc = "write"
        /\ store' = IF updated.err THEN store ELSE updated.store
        /\ procs' = [procs EXCEPT ![p] =
                        [@ EXCEPT !.pc = "done", !.found = NoSong,
                                  !.status = IF updated.err THEN 500 ELSE 200,
                                  !.song = IF updated.err THEN NoSong
                                           ELSE AssignNonZero(procs[p].found, procs[p].body),
                                  !.rows = IF id \in DOMAIN store THEN 1 ELSE 0]]
        /\ UNCHANGED <<nextId, now, resp>>

NextRace ==
    \/ nextId = RaceId /\ CreateSong(RaceBody, ReplyOk)
    \/ \E p \in 1..NumProcs : ReceiveDelete(p, RaceId)
    \/ \E p \in 1..NumProcs, body \in RaceUpdates : ReceiveUpdate(p, RaceId, body)
    \/ \E p \in 1..NumProcs : DeleteLookup(p)
    \/ \E p \in 1..NumProcs : DeleteWrite(p)
    \/ \E p \in 1..NumProcs : UpdateLookup(p)
    \/ \E p \in 1..NumProcs : UpdateWrite(p)

SpecRace == Init /\ [][NextRace]_vars

----------------------------------------------------------------------------
(* Claims.                                                                 *)

\* C1: two create requests with the same (group, song), both arriving while
\* no song has that pair and neither failing at the enrichment call, end with
\* exactly one 200 and one 409, in every interleaving of their steps.
C1_OneSuccessOneConflict ==
    \A p \in 1..NumProcs, q \in 1..NumProcs :
        ( /\ p # q
          /\ procs[p].pc = "done" /\ procs[q].pc = "done"
          /\ ~BindSongInput(procs[p].body).err
          /\ procs[p].body.group = procs[q].body.group
          /\ procs[p].body.song = procs[q].body.song
          /\ procs[p].fresh /\ procs[q].fresh
          /\ procs[p].status # 500 /\ procs[q].status # 500 )
        => {procs[p].status, procs[q].status} = {200, 409}

\* C2: in every state reached by create, update and delete requests handled
\* one after the other, no two songs have the same (group, song).
C2_UniquePairs ==
    \A i \in DOMAIN store, j \in DOMAIN store :
        i # j => ~(store[i].group = store[j].group /\ store[i].song = store[j].song)

\* The verses V[(page-1)*limit : min(page*limit, len(V))], or none when
\* (page-1)*limit is not below len(V).
ExpectedVerses(V, page, limit) ==
    IF (page - 1) * limit < Len(V)
    THEN [k \in 1..(Min(page * limit, Len(V)) - (page - 1) * limit) |->
             V[(page - 1) * limit + k]]
    ELSE << >>

\* C3: get-verses of an existing song with page p >= 1 and limit l >= 1
\* returns total = len(V) and the verses V[(p-1)*l : min(p*l, len(V))] in
\* order, or no verse when (p-1)*l >= len(V), V being the split text.
C3_VersePagination ==
    [][resp'.op = "verses" =>
         \A p \in VerseNumbers, l \in VerseNumbers :
            ( /\ resp'.id \in DOMAIN store
              /\ GetSongVerses(resp'.id, << Itoa(p) >>, << Itoa(l) >>) )
            => LET V == SplitVerses(store[resp'.id].text)
               IN  /\ resp'.status = 200
                   /\ resp'.total = Len(V)
                   /\ resp'.verses = ExpectedVerses(V, p, l)]_vars

\* A page or limit parameter the handler is to accept: absent (the default
\* 1), or the decimal spelling of a number from 1 on.
ValidPageParam(param) == param = << >> \/ \E n \in VerseNumbers : param = << Itoa(n) >>

ParamNumber(param) ==
    IF param = << >> THEN 1 ELSE CHOOSE n \in VerseNumbers : param = << Itoa(n) >>

\* C4: get-verses answers 404 exactly when no song has the id; for an
\* existing id with a valid page and limit it answers 200 with the total
\* number of verses, with no verse when the page lies beyond the last one.
C4_VersesStatus ==
    [][resp'.op = "verses" =>
         \A page \in VerseParams, limit \in VerseParams :
            GetSongVerses(resp'.id, page, limit) =>
               /\ (resp'.status = 404) <=> (resp'.id \notin DOMAIN store)
               /\ ( /\ resp'.id \in DOMAIN store
                    /\ ValidPageParam(page) /\ ValidPageParam(limit) )
                  => LET total == Len(SplitVerses(store[resp'.id].text))
                     IN  /\ resp'.status = 200
                         /\ resp'.total = total
                         /\ (ParamNumber(page) - 1) * ParamNumber(limit) >= total
                               => resp'.verses = << >>]_vars

\* C5: after a successful update the stored record holds the supplied value
\* in every field supplied non-empty and its old value in every other
\* field, and every other song is as it was.
C5_PartialUpdateFrame ==
    [][(resp'.op = "update" /\ resp'.status = 200) =>
         \A body \in UpdateBodies :
            UpdateSong(resp'.id, body) =>
               LET id  == resp'.id
                   old == store[id]
                   new == store'[id]
               IN  /\ id \in DOMAIN store
                   /\ DOMAIN store' = DOMAIN store
                   /\ \A j \in (DOMAIN store) \ {id} : store'[j] = store[j]
                   /\ new.id = old.id
                   /\ new.group = IF body.group = << >> THEN old.group ELSE body.group
                   /\ new.song = IF body.song = << >> THEN old.song ELSE body.song
                   /\ new.release_date =
                         IF body.release_date = << >> THEN old.release_date
                         ELSE body.release_date
                   /\ new.text = IF body.text = << >> THEN old.text ELSE body.text
                   /\ new.link = IF body.link = "" THEN old.link ELSE body.link]_vars

\* An update that supplied the text and not the link succeeded beside
\* another song: the text is the supplied one, the link the enrichment's.
C5_Witness ==
    /\ resp.op = "update" /\ resp.status = 200
    /\ Cardinality(DOMAIN store) = 2
    /\ resp.id \in DOMAIN store
    /\ store[resp.id].text = TextU
    /\ store[resp.id].link = "l0"

\* C6: an update of an existing song whose body carries a non-zero id other
\* than the song's is answered 400 (id change), and the table is unchanged.
C6_IdChangeRejected ==
    [][resp'.op = "update" =>
         \A body \in UpdateBodies :
            ( /\ resp'.id \in DOMAIN store
              /\ body.id # 0 /\ body.id # store[resp'.id].id
              /\ UpdateSong(resp'.id, body) )
            => /\ resp'.status = 400
               /\ resp'.error = ErrChangeId
               /\ store' = store]_vars

\* An id change was rejected and the text the same body supplied not stored.
C6_Witness ==
    /\ resp.op = "update" /\ resp.status = 400 /\ resp.error = ErrChangeId
    /\ resp.id \in DOMAIN store
    /\ store[resp.id].id = resp.id
    /\ store[resp.id].text # TextU

\* The days of a month of the Gregorian calendar.
CalendarDays(m, y) ==
    IF m \in {1, 3, 5, 7, 8, 10, 12} THEN 31
    ELSE IF m \in {4, 6, 9, 11} THEN 30
    ELSE IF (y % 4 = 0 /\ y % 100 # 0) \/ y % 400 = 0 THEN 29
    ELSE 28

\* The dates of the calendar in the years of the model, by their string
\* DD.MM.YYYY.
CalendarDates ==
    { <<y, m, d>> \in DateYears \X (1..12) \X (1..31) : d <= CalendarDays(m, y) }

CalendarStrings == { DateString(c[3], c[2], c[1]) : c \in CalendarDates }

DateOfString == [s \in CalendarStrings |->
                    CHOOSE c \in CalendarDates : DateString(c[3], c[2], c[1]) = s]

\* The date c is later than the UTC date of the instant t.
LaterThanToday(c, t) ==
    \/ c[1] > t.year
    \/ c[1] = t.year /\ c[2] > t.month
    \/ c[1] = t.year /\ c[2] = t.month /\ c[3] > t.day

\* What the validation is to say of a date string at the instant t.
DateVerdict(s, t) ==
    IF s \notin CalendarStrings THEN ErrDateFormat
    ELSE IF LaterThanToday(DateOfString[s], t) THEN ErrFutureDate
    ELSE ""

\* C7: update and list-songs accept a release date that is a date of the
\* calendar written DD.MM.YYYY and not later than today, reject a later one
\* with the future-date error and any other string with the format error.
C7_DateValidation ==
    [][ /\ resp'.op = "update" =>
             \A d \in DateStrings :
                UpdateSong(1, MkUpdateBody(TRUE, 0, << >>, << >>, d, << >>, "")) =>
                   IF 1 \notin DOMAIN store THEN resp'.status = 404
                   ELSE IF DateVerdict(d, now) = ""
                   THEN resp'.status = 200 /\ store'[1].release_date = d
                   ELSE /\ resp'.status = 400
                        /\ resp'.error = DateVerdict(d, now)
                        /\ store' = store
        /\ resp'.op = "list" =>
             \A d \in DateStrings :
                GetAllSongs(MkQuery(<< >>, << >>, d, << >>, << >>)) =>
                   IF DateVerdict(d, now) = ""
                   THEN resp'.error \notin {ErrDateFormat, ErrFutureDate}
                   ELSE resp'.status = 400 /\ resp'.error = DateVerdict(d, now)
        /\ ErrDateFormat # ErrFutureDate ]_vars

\* Today's date was accepted by an update in the afternoon.
C7_Witness ==
    /\ resp.op = "update" /\ resp.status = 200
    /\ now = MkTime(2024, 3, 1, 13)
    /\ 1 \in DOMAIN store
    /\ store[1].release_date = DateU

\* The id was assigned once and no song has it now.
Deleted(id) == id < nextId /\ id \notin DOMAIN store

\* C8: a delete of an id no song has answers 404 and changes nothing; a
\* delete that answers 200 removes the song, a removed id never comes back,
\* and every later delete, get-verses and update of it answers 404.
C8_DeleteNotFound ==
    [][ /\ resp'.op = "delete" =>
             ( DeleteSong(resp'.id) =>
                 /\ resp'.id \notin DOMAIN store =>
                       (resp'.status = 404 /\ store' = store /\ nextId' = nextId)
                 /\ resp'.status = 200 =>
                       (resp'.id \in DOMAIN store /\ resp'.id \notin DOMAIN store') )
        /\ \A id \in PathIds :
              Deleted(id) =>
                 /\ id \notin DOMAIN store'
                 /\ (resp'.op \in {"delete", "verses", "update"} /\ resp'.id = id)
                       => resp'.status = 404 ]_vars

\* A song was deleted and a later delete of its id answered 404.
C8_Witness ==
    /\ resp.op = "delete" /\ resp.status = 404
    /\ Deleted(resp.id)

\* C9: a create whose (group, song) a stored song has answers 409, inserts
\* nothing and does not call the enrichment client.
C9_CreateConflict ==
    [][resp'.op = "create" =>
         \A body \in CreateBodies, reply \in EnrichReplies :
            ( /\ body.wellformed
              /\ \E i \in DOMAIN store :
                    store[i].group = body.group /\ store[i].song = body.song
              /\ CreateSong(body, reply) )
            => /\ resp'.status = 409
               /\ store' = store
               /\ nextId' = nextId
               /\ resp'.enrichCalls = 0]_vars

\* A create was answered 409.
C9_Witness ==
    /\ resp.op = "create" /\ resp.status = 409
    /\ resp.enrichCalls = 0
    /\ store # << >>

\* C10: a successful create adds one song: group and song of the request,
\* release_date, text and link of the enrichment reply, under an id no
\* other song has; the response is that song.
C10_CreatePersists ==
    [][(resp'.op = "create" /\ resp'.status = 200) =>
         \A body \in CreateBodies, reply \in EnrichReplies :
            CreateSong(body, reply) =>
               LET nid == resp'.id
               IN  /\ nid \notin DOMAIN store
                   /\ \A j \in DOMAIN store : store[j].id # nid
                   /\ DOMAIN store' = (DOMAIN store) \cup {nid}
                   /\ \A j \in DOMAIN store : store'[j] = store[j]
                   /\ store'[nid] = MkSong(nid, body.group, body.song,
                                           reply.detail.releaseDate,
                                           reply.detail.text, reply.detail.link)
                   /\ resp'.song = store'[nid]
                   /\ resp'.enrichCalls = 1]_vars

\* A second song was created and answered with the enrichment's fields.
C10_Witness ==
    /\ resp.op = "create" /\ resp.status = 200
    /\ Cardinality(DOMAIN store) = 2
    /\ resp.id \in DOMAIN store
    /\ resp.song = store[resp.id]
    /\ resp.song.release_date = Date0 /\ resp.song.text = Text0 /\ resp.song.link = "l0"

\* C11: a create that reaches the enrichment call and gets a transport
\* error, a status other than 200 or a body that does not decode answers 500
\* (failed to fetch), stores nothing and has called the client once.
C11_EnrichmentFailure ==
    [][resp'.op = "create" =>
         \A body \in CreateBodies, reply \in EnrichReplies :
            ( /\ body.wellformed /\ body.group # << >> /\ body.song # << >>
              /\ ~\E i \in DOMAIN store :
                     store[i].group = body.group /\ store[i].song = body.song
              /\ (reply.transportErr \/ reply.status # 200 \/ ~reply.decodes)
              /\ CreateSong(body, reply) )
            => /\ resp'.status = 500
               /\ resp'.error = ErrFetch
               /\ store' = store
               /\ nextId' = nextId
               /\ resp'.enrichCalls = 1]_vars

\* A create failed at the enrichment call beside a stored song.
C11_Witness ==
    /\ resp.op = "create" /\ resp.status = 500 /\ resp.error = ErrFetch
    /\ resp.enrichCalls = 1
    /\ Cardinality(DOMAIN store) = 1

\* C12: a request answered 400, by any handler, leaves the table and the
\* id sequence as they were.
C12_ValidationBeforeWrite ==
    [][resp'.status = 400 => (store' = store /\ nextId' = nextId)]_vars

\* An update of a stored song was answered 400 for a future release date.
C12_Witness ==
    /\ resp.op = "update" /\ resp.status = 400 /\ resp.error = ErrFutureDate
    /\ resp.id \in DOMAIN store

\* C13: a request during which a call on the table failed is answered 500;
\* the failure is not answered 404 or 409 and the handler does not go on.
C13_StoreFailureIs500 ==
    resp.storeFailed => resp.status = 500

\* The number a valid page or limit parameter stands for.
ListNumber(param, default) ==
    IF param = << >> THEN default ELSE CHOOSE n \in ListNumbers : param = << Itoa(n) >>

\* The songs matching the filters of a query: group and song contain the
\* filter whatever the case, release_date equals it.
MatchesFilters(row, q) ==
    /\ q.group # << >> =>
          \E i \in 0..(Len(row.group) - Len(q.group)) :
             LowerOf(SubSeq(row.group, i + 1, i + Len(q.group))) = LowerOf(q.group)
    /\ q.song # << >> =>
          \E i \in 0..(Len(row.song) - Len(q.song)) :
             LowerOf(SubSeq(row.song, i + 1, i + Len(q.song))) = LowerOf(q.song)
    /\ q.releaseDate # << >> => row.release_date = q.releaseDate

\* The matching songs in the order of the table.
MatchingRows(st, q) == RowsById(st, { i \in DOMAIN st : MatchesFilters(st[i], q) })

\* The elements of rows at the positions [(page-1)*limit, (page-1)*limit+limit).
ExpectedSongs(rows, page, limit) ==
    [k \in 1..(Min(page * limit, Len(rows)) - Min((page - 1) * limit, Len(rows))) |->
        rows[(page - 1) * limit + k]]

\* C14: list-songs with a valid page and limit returns as total the number of
\* songs matching the filters and as songs the matching songs at the
\* positions [(page-1)*limit, (page-1)*limit + limit) of the table's order.
C14_ListPagination ==
    [][resp'.op = "list" =>
         \A q \in ListQueries :
            ( /\ q.page \in ValidParams /\ q.limit \in ValidParams
              /\ q.releaseDate # << >> => ReleaseDateError(q.releaseDate, now) = ""
              /\ GetAllSongs(q) )
            => LET rows  == MatchingRows(store, q)
                   page  == ListNumber(q.page, 1)
                   limit == ListNumber(q.limit, 5)
               IN  /\ resp'.status = 200
                   /\ resp'.total = Len(rows)
                   /\ resp'.songs = ExpectedSongs(rows, page, limit)
                   /\ Len(resp'.songs) <= limit]_vars

\* C15: list-songs with a release-date filter that passes the validation
\* answers 200 and counts exactly the songs whose release_date is the filter
\* (and that match the other filters).
C15_ReleaseDateFilter ==
    [][resp'.op = "list" =>
         \A q \in ListQueries :
            ( /\ q.releaseDate # << >>
              /\ ReleaseDateError(q.releaseDate, now) = ""
              /\ q.page \in ValidParams /\ q.limit \in ValidParams
              /\ GetAllSongs(q) )
            => /\ resp'.status = 200
               /\ resp'.total =
                     Cardinality({ i \in DOMAIN store :
                                     /\ store[i].release_date = q.releaseDate
                                     /\ MatchesFilters(store[i], q) })]_vars

\* A supplied page or limit that is no integer, or an integer below 1.
InvalidParam(param) ==
    /\ param # << >>
    /\ LET text   == param[1]
           signed == Len(text) > 0 /\ text[1] \in {"+", "-"}
           digits == IF signed THEN SubSeq(text, 2, Len(text)) ELSE text
       IN  \/ digits = << >>
           \/ \E i \in 1..Len(digits) : digits[i] \notin DigitChars
           \/ signed /\ text[1] = "-"
           \/ \A i \in 1..Len(digits) : digits[i] = "0"

\* C16 as stated: list-songs and get-verses answer 400 whenever the page or
\* the limit supplied is no integer or is below 1.
C16_InvalidParamRejected ==
    [][ /\ resp'.op = "list" =>
             \A q \in ListQueries :
                ( /\ InvalidParam(q.page) \/ InvalidParam(q.limit)
                  /\ GetAllSongs(q) )
                => resp'.status = 400
        /\ resp'.op = "verses" =>
             \A pl \in ParamPairs :
                ( /\ InvalidParam(pl[1]) \/ InvalidParam(pl[2])
                  /\ GetSongVerses(resp'.id, pl[1], pl[2]) )
                => resp'.status = 400 ]_vars

\* C16 amended: list-songs answers 400 whenever the page or the limit
\* supplied is no integer or is below 1, and so does get-verses of an
\* existing song; get-verses of an id no song has answers 404 whatever the
\* page and limit.  The message names the page when the page is invalid and
\* the limit otherwise, and neither answers 200 with a default.
C16_InvalidParamRejectedExisting ==
    [][ /\ resp'.op = "list" =>
             \A q \in ListQueries :
                ( /\ InvalidParam(q.page) \/ InvalidParam(q.limit)
                  /\ GetAllSongs(q) )
                => /\ resp'.status = 400
                   /\ resp'.error = IF InvalidParam(q.page) THEN ErrInvalidPage
                                     ELSE ErrInvalidLimit
        /\ resp'.op = "verses" =>
             \A pl \in ParamPairs :
                ( /\ InvalidParam(pl[1]) \/ InvalidParam(pl[2])
                  /\ GetSongVerses(resp'.id, pl[1], pl[2]) )
                => IF resp'.id \in DOMAIN store
                   THEN /\ resp'.status = 400
                        /\ resp'.error = IF InvalidParam(pl[1]) THEN ErrInvalidPage
                                          ELSE ErrInvalidLimit
                   ELSE resp'.status = 404 ]_vars

\* Get-verses of a stored song was answered 400 for its limit.
C16_Witness ==
    /\ resp.op = "verses" /\ resp.status = 400 /\ resp.error = ErrInvalidLimit
    /\ resp.id \in DOMAIN store

\* C17: every request of the documented surface reaches its handler: GET
\* /songs list, POST /songs create, PATCH and DELETE /songs/{id} update and
\* delete, GET /songs/{id}/verses get-verses.
C17_RoutesRegistered ==
    [][ /\ Serve("GET", <<"songs">>) => resp'.op = "list"
        /\ Serve("POST", <<"songs">>) => resp'.op = "create"
        /\ \A id \in PathIds :
              /\ Serve("PATCH", <<"songs", IdSegment(id)>>) =>
                    (resp'.op = "update" /\ resp'.id = id)
              /\ Serve("DELETE", <<"songs", IdSegment(id)>>) =>
                    (resp'.op = "delete" /\ resp'.id = id)
              /\ Serve("GET", <<"songs", IdSegment(id), "verses">>) =>
                    (resp'.op = "verses" /\ resp'.id = id) ]_vars

\* C18: a request without page uses page 1, one without limit uses limit 5
\* in list-songs and limit 1 in get-verses, and the response that carries
\* page and limit (200) carries the values used.
C18_Defaults ==
    [][ /\ resp'.op = "list" =>
             \A q \in ListQueries :
                ( /\ q.page = << >> \/ q.limit = << >>
                  /\ q.page \in ValidParams /\ q.limit \in ValidParams
                  /\ GetAllSongs(q) )
                => LET page  == ListNumber(q.page, 1)
                       limit == ListNumber(q.limit, 5)
                   IN  /\ q.releaseDate = << >> => resp'.status = 200
                       /\ resp'.status = 200 =>
                             /\ resp'.page = page /\ resp'.limit = limit
                             /\ page = 1 =>
                                   resp'.songs =
                                      ExpectedSongs(MatchingRows(store, q), 1, limit)
        /\ resp'.op = "verses" =>
             \A pl \in ValidParams \X ValidParams :
                ( /\ pl[1] = << >> \/ pl[2] = << >>
                  /\ resp'.id \in DOMAIN store
                  /\ GetSongVerses(resp'.id, pl[1], pl[2]) )
                => LET page  == ListNumber(pl[1], 1)
                       limit == ListNumber(pl[2], 1)
                   IN  /\ page = 1 => resp'.status = 200
                       /\ resp'.status = 200 =>
                             /\ resp'.page = page /\ resp'.limit = limit
                             /\ (page = 1 /\ limit = 1) =>
                                   resp'.verses =
                                      << SplitVerses(store[resp'.id].text)[1] >> ]_vars

\* Two songs were listed without page and limit: page 1, limit 5, both songs.
C18_Witness ==
    /\ resp.op = "list" /\ resp.status = 200
    /\ resp.page = 1 /\ resp.limit = 5
    /\ resp.total = 2 /\ Len(resp.songs) = 2

\* C19: the id of a row is its primary key, so no two songs share one; a
\* create adds a row under an id never assigned before and keeps the others,
\* an update keeps every row under its id, a delete only removes rows: a song
\* keeps its id from its creation to its deletion.
C19_IdImmutable ==
    [][ /\ \A i \in DOMAIN store' : store'[i].id = i
        /\ \A i \in (DOMAIN store) \cap (DOMAIN store') : store'[i].id = store[i].id
        /\ \A i \in (DOMAIN store') \ (DOMAIN store) :
              /\ resp'.op = "create" /\ resp'.status = 200
              /\ i = nextId /\ nextId' > i
        /\ \A i \in (DOMAIN store) \ (DOMAIN store') :
              resp'.op = "delete" /\ resp'.status = 200 /\ resp'.id = i
        /\ nextId' >= nextId
        /\ \A i \in DOMAIN store : i < nextId ]_vars

\* The second of two songs was updated and is still the song of id 2.
C19_Witness ==
    /\ resp.op = "update" /\ resp.status = 200 /\ resp.id = 2
    /\ DOMAIN store = {1, 2}
    /\ store[2].id = 2 /\ store[2].text = TextU

\* C20: for every page and limit from 1 on that Atoi accepts, those whose
\* product leaves the range of int included, get-verses of an existing song
\* computes a start that is not negative, slices only with
\* 0 <= start <= end <= len(V), and does not fail (500).
C20_PaginationTotal ==
    [][resp'.op = "verses" =>
         \A p \in VerseNumbers, l \in VerseNumbers :
            ( /\ resp'.id \in DOMAIN store
              /\ GetSongVerses(resp'.id, << Itoa(p) >>, << Itoa(l) >>) )
            => LET total == Len(SplitVerses(store[resp'.id].text))
                   start == VerseStart(p, l)
                   end   == VerseEnd(total, p, l)
               IN  /\ start >= 0
                   /\ start < total => (start <= end /\ end <= total)
                   /\ resp'.status # 500]_vars

\* C21: an update of a stored song whose release_date is supplied and is no
\* date DD.MM.YYYY of the calendar or is later than today answers 400 and
\* leaves the table as it was; one whose release_date is empty is not
\* answered with a date error and leaves the stored release_date as it was;
\* so a release_date that an update changes is one the validation accepts.
C21_UpdateDateValidated ==
    [][resp'.op = "update" =>
         \A body \in UpdateBodies :
            ( /\ resp'.id \in DOMAIN store
              /\ UpdateSong(resp'.id, body) )
            => LET id == resp'.id
               IN  /\ (body.release_date # << >>
                         /\ DateVerdict(body.release_date, now) # "")
                      => (resp'.status = 400 /\ store' = store)
                   /\ body.release_date = << >>
                      => /\ resp'.error \notin {ErrDateFormat, ErrFutureDate}
                         /\ id \in DOMAIN store'
                         /\ store'[id].release_date = store[id].release_date
                   /\ id \in DOMAIN store'
                   /\ store'[id].release_date # store[id].release_date
                      => /\ store'[id].release_date = body.release_date
                         /\ DateVerdict(body.release_date, now) = ""]_vars

\* An update of a stored song was answered 400 for a release date in another
\* format, and the song has the release date of its creation.
C21_Witness ==
    /\ resp.op = "update" /\ resp.status = 400 /\ resp.error = ErrDateFormat
    /\ resp.id \in DOMAIN store
    /\ store[resp.id].release_date = Date0

\* C22: list-songs with a valid page and limit (and a release-date filter
\* that passes the validation, if any) answers 200 with no song and total 0
\* when no song matches the filters, and 200 with no song and the number of
\* matching songs as total when (page-1)*limit is not below that number.
C22_EmptyIsNotAnError ==
    [][resp'.op = "list" =>
         \A q \in ListQueries :
            ( /\ q.page \in ValidParams /\ q.limit \in ValidParams
              /\ q.releaseDate # << >> => ReleaseDateError(q.releaseDate, now) = ""
              /\ GetAllSongs(q) )
            => LET rows  == MatchingRows(store, q)
                   page  == ListNumber(q.page, 1)
                   limit == ListNumber(q.limit, 5)
               IN  /\ rows = << >>
                      => (resp'.status = 200 /\ resp'.songs = << >> /\ resp'.total = 0)
                   /\ (page - 1) * limit >= Len(rows)
                      => /\ resp'.status = 200
                         /\ resp'.songs = << >>
                         /\ resp'.total = Len(rows)]_vars

\* C23: get-verses of a song whose text is empty, with a page and a limit
\* from 1 on, answers 200 with total 1; page 1 returns the one empty verse
\* whatever the limit, and a page with (page-1)*limit >= 1 returns no verse.
C23_EmptyTextOneVerse ==
    [][resp'.op = "verses" =>
         \A p \in VerseNumbers, l \in VerseNumbers :
            ( /\ resp'.id \in DOMAIN store
              /\ store[resp'.id].text = << >>
              /\ GetSongVerses(resp'.id, << Itoa(p) >>, << Itoa(l) >>) )
            => /\ resp'.status = 200
               /\ resp'.total = 1
               /\ p = 1 => resp'.verses = << << >> >>
               /\ (p - 1) * l >= 1 => resp'.verses = << >>]_vars

\* A body that an update of the song id is to reject: no JSON, an id other
\* than the song's, or a release date the validation rejects.
InvalidBody(body, id, t) ==
    \/ ~body.wellformed
    \/ body.id # 0 /\ body.id # id
    \/ body.release_date # << >> /\ DateVerdict(body.release_date, t) # ""

\* C24: get-verses with an invalid page or limit and update with an invalid
\* body answer 404 (song not found) when no song has the id and 400 when one
\* has; neither changes the table.
C24_ExistenceBeforeValidation ==
    [][ /\ resp'.op = "verses" =>
             \A page \in PageParams, limit \in PageParams :
                ( /\ InvalidParam(page) \/ InvalidParam(limit)
                  /\ GetSongVerses(resp'.id, page, limit) )
                => /\ IF resp'.id \in DOMAIN store THEN resp'.status = 400
                      ELSE resp'.status = 404 /\ resp'.error = ErrSongNotFound
                   /\ store' = store
        /\ resp'.op = "update" =>
             \A body \in UpdateBodies :
                ( /\ InvalidBody(body, resp'.id, now)
                  /\ UpdateSong(resp'.id, body) )
                => /\ IF resp'.id \in DOMAIN store THEN resp'.status = 400
                      ELSE resp'.status = 404 /\ resp'.error = ErrSongNotFound
                   /\ store' = store ]_vars

\* Get-verses of a stored song was answered 400 for its page, after another
\* song was deleted.
C24_Witness ==
    /\ resp.op = "verses" /\ resp.status = 400 /\ resp.error = ErrInvalidPage
    /\ resp.id \in DOMAIN store
    /\ \E id \in PathIds : Deleted(id)

\* C25: with the requests handled one after the other, the song a successful
\* update answers with is the row stored under the id after the update: the
\* supplied non-empty fields of the body over the old row; a get-verses of
\* the id that follows at once answers with the same song, group and
\* release_date and with the verses of the same text.
C25_UpdateReturnsStored ==
    [][(resp'.op = "update" /\ resp'.status = 200) =>
         LET id   == resp'.id
             read == VersesResponse(store', id, << >>, << >>)
         IN  /\ id \in DOMAIN store'
             /\ resp'.song = store'[id]
             /\ read.status = 200
             /\ read.song.song = resp'.song.song
             /\ read.song.group = resp'.song.group
             /\ read.song.release_date = resp'.song.release_date
             /\ read.total = Len(SplitVerses(resp'.song.text))
             /\ read.verses = << SplitVerses(resp'.song.text)[1] >>
             /\ \A body \in UpdateBodies :
                   UpdateSong(id, body) =>
                      LET old == store[id]
                      IN  resp'.song =
                             MkSong(old.id,
                                    IF body.group = << >> THEN old.group ELSE body.group,
                                    IF body.song = << >> THEN old.song ELSE body.song,
                                    IF body.release_date = << >> THEN old.release_date
                                    ELSE body.release_date,
                                    IF body.text = << >> THEN old.text ELSE body.text,
                                    IF body.link = "" THEN old.link ELSE body.link)]_vars

\* An update that supplied the group and the link was answered with the
\* stored row: the new group and link, the text of the creation.
C25_Witness ==
    /\ resp.op = "update" /\ resp.status = 200
    /\ resp.id \in DOMAIN store
    /\ resp.song = store[resp.id]
    /\ resp.song.group = <<"A">> /\ resp.song.link = "lU" /\ resp.song.text = Text0

\* C26: list-songs without a release-date filter returns exactly the songs
\* whose group contains the group filter and whose song contains the song
\* filter, whatever the case; a filter that is absent or empty restricts
\* nothing, and with no filter every song of the table is returned.
C26_FiltersConjunctive ==
    [][resp'.op = "list" =>
         \A q \in FilterQueries :
            ( /\ GetAllSongs(q) )
            => LET ids == { i \in DOMAIN store : MatchesFilters(store[i], q) }
               IN  /\ resp'.status = 200
                   /\ resp'.total = Cardinality(ids)
                   /\ resp'.songs = RowsById(store, ids)
                   /\ (q.group = << >> /\ q.song = << >>)
                         => resp'.total = Cardinality(DOMAIN store)]_vars

\* C27: list-songs and get-verses (and a request no route matches) leave the
\* table as it was, whatever they answer; update and delete leave every song
\* other than the one of the id in the path as it was, and update removes
\* none; create leaves every song as it was and adds one row when it answers
\* 200 and none otherwise.
C27_Frame ==
    [][ /\ resp'.op \in {"list", "verses", "noroute"} =>
             (store' = store /\ nextId' = nextId)
        /\ resp'.op \in {"update", "delete"} =>
             /\ \A j \in (DOMAIN store) \ {resp'.id} :
                   j \in DOMAIN store' /\ store'[j] = store[j]
             /\ DOMAIN store' \subseteq DOMAIN store
             /\ nextId' = nextId
        /\ resp'.op = "update" => DOMAIN store' = DOMAIN store
        /\ resp'.op = "create" =>
             /\ \A j \in DOMAIN store : j \in DOMAIN store' /\ store'[j] = store[j]
             /\ Cardinality((DOMAIN store') \ (DOMAIN store)) =
                   IF resp'.status = 200 THEN 1 ELSE 0 ]_vars

\* One of two songs was deleted and the other is in the table.
C27_Witness ==
    /\ resp.op = "delete" /\ resp.status = 200
    /\ Deleted(resp.id)
    /\ Cardinality(DOMAIN store) = 1

\* C28: two delete requests of the same id, both arriving while a song has
\* the id, end with one 200 and one 404 in every interleaving of their
\* lookups and deletes, and a delete answered 200 has removed the row.
C28_OneDeleteSucceeds ==
    /\ \A p \in 1..NumProcs, q \in 1..NumProcs :
          ( /\ p # q
            /\ procs[p].op = "delete" /\ procs[q].op = "delete"
            /\ procs[p].pc = "done" /\ procs[q].pc = "done"
            /\ procs[p].id = procs[q].id
            /\ procs[p].existed /\ procs[q].existed )
          => {procs[p].status, procs[q].status} = {200, 404}
    /\ \A p \in 1..NumProcs :
          (procs[p].op = "delete" /\ procs[p].pc = "done" /\ procs[p].status = 200)
          => procs[p].rows = 1

\* C29: an update answered 200 has written a row that was in the table when
\* its statement ran, also when a delete of the id ran between its lookup
\* and its write; and no step brings back an id whose song was deleted.
C29_UpdateHitsExistingRow ==
    [][ /\ \A p \in 1..NumProcs :
              ( /\ procs[p].op = "update" /\ procs[p].pc = "write"
                /\ procs'[p].pc = "done" /\ procs'[p].status = 200 )
              => /\ procs'[p].rows = 1
                 /\ procs'[p].id \in DOMAIN store'
        /\ \A id \in PathIds : Deleted(id) => id \notin DOMAIN store' ]_vars

\* The fields of a song that a body may supply, and those it supplies.
UpdateFields == {"group", "song", "release_date", "text", "link"}

Supplied(body) ==
    { f \in UpdateFields \ {"link"} : body[f] # << >> }
    \cup (IF body.link # "" THEN {"link"} ELSE {})

\* C30: when two updates of the same song that supply disjoint sets of
\* non-empty fields have both answered 200, and no other request was made,
\* the stored song holds the fields either supplied with the supplied values
\* and every other field as the song was created, in every interleaving of
\* their lookups and writes.
C30_NoLostUpdate ==
    \A p \in 1..NumProcs, q \in 1..NumProcs :
        ( /\ p # q
          /\ procs[p].op = "update" /\ procs[q].op = "update"
          /\ procs[p].pc = "done" /\ procs[q].pc = "done"
          /\ procs[p].status = 200 /\ procs[q].status = 200
          /\ procs[p].id = procs[q].id
          /\ Supplied(procs[p].body) \cap Supplied(procs[q].body) = {}
          /\ \A r \in (1..NumProcs) \ {p, q} : procs[r].pc = "idle" )
        => LET id   == procs[p].id
               orig == MkSong(id, <<"a">>, <<"x">>, Date0, Text0, "l0")
           IN  /\ id \in DOMAIN store
               /\ \A f \in UpdateFields :
                     store[id][f] =
                        IF f \in Supplied(procs[p].body) THEN procs[p].body[f]
                        ELSE IF f \in Supplied(procs[q].body) THEN procs[q].body[f]
                        ELSE orig[f]
               /\ store[id].id = id

\* An update of the text and an update of the link both read the song before
\* either wrote (each answered with the other's field as it was), both
\* answered 200, and the stored song has the new text and the new link.
C30_Witness ==
    \E p \in 1..NumProcs, q \in 1..NumProcs :
        /\ p # q
        /\ procs[p].op = "update" /\ procs[q].op = "update"
        /\ procs[p].pc = "done" /\ procs[q].pc = "done"
        /\ procs[p].status = 200 /\ procs[q].status = 200
        /\ procs[p].body.text = TextU /\ procs[q].body.link = "lU"
        /\ procs[p].song.link = "l0" /\ procs[q].song.text = Text0
        /\ RaceId \in DOMAIN store
        /\ store[RaceId].text = TextU /\ store[RaceId].link = "lU"

====
